---------------------------- MODULE Spec2Model ----------------------------
(***************************************************************************)
(* A model of mcp_obsidian/http_server.py: the tool registry, the REST     *)
(* gateway (GET /, /health, /tools/list, POST /tools/call), the JSON-RPC   *)
(* gateway (POST /sse) and the generator behind a GET /sse stream.         *)
(*                                                                         *)
(* Every request handler has no await between reading its input and        *)
(* building its response (handler.run_tool is a plain call), so a request  *)
(* is one atomic action.  The GET /sse generator is a process with one     *)
(* step per suspension point.                                              *)
(***************************************************************************)
EXTENDS Integers, Sequences, FiniteSets, TLC

(***************************************************************************)
(* Bounds of the model.                                                    *)
(***************************************************************************)
\* the longest sequence of content items a handler returns
MaxItems == 2
\* the most add_tool_handler calls the module makes while it starts
MaxRegister == 3
\* the most keep-alive lines one stream emits to a client that is connected
MaxKeepAlive == 2

(***************************************************************************)
(* Python values.  A value is a record [t, s, items]: t is the Python type,*)
(* s the payload of a scalar, items the payload of a sequence.             *)
(***************************************************************************)
PyNone == [t |-> "none", s |-> "", items |-> <<>>]
PyStr(s) == [t |-> "str", s |-> s, items |-> <<>>]
PyInt(s) == [t |-> "int", s |-> s, items |-> <<>>]
PyNaN == [t |-> "float", s |-> "nan", items |-> <<>>]
PyTrue == [t |-> "bool", s |-> "True", items |-> <<>>]
PyDict(s) == [t |-> "dict", s |-> s, items |-> <<>>]
PyList(s) == [t |-> "list", s |-> s, items |-> <<>>]
\* the list object a handler returned, with its content items
PyItems(seq) == [t |-> "list", s |-> "items", items |-> seq]
\* the string json.dumps gives for a list of encodable content items
PyDumped(seq) == [t |-> "str", s |-> "dumps", items |-> seq]
\* a key that a JSON object does not have
Absent == [t |-> "absent", s |-> "", items |-> <<>>]

(***************************************************************************)
(* The texts a content item may carry.                                     *)
(***************************************************************************)
TextObj == "{\"a\":1}"
TextArr == "[1,2]"
TextQuoted == "\"q\""
TextNum == "7"
TextNaN == "NaN"
TextTrue == "true"
TextNull == "null"
TextPlain == "plain"
Texts == {TextObj, TextArr, TextQuoted, TextNum, TextNaN, TextTrue, TextNull, TextPlain}

\* json.loads raises on a text that is not JSON
JsonLoadsRaises(text) ==
    text \notin {TextObj, TextArr, TextQuoted, TextNum, TextNaN, TextTrue, TextNull}

\* json.loads: the Python value a JSON text denotes (NaN is accepted)
JsonLoads(text) ==
    CASE text = TextObj -> PyDict("a=1")
      [] text = TextArr -> PyList("1;2")
      [] text = TextQuoted -> PyStr("q")
      [] text = TextNum -> PyInt("7")
      [] text = TextNaN -> PyNaN
      [] text = TextTrue -> PyTrue
      [] OTHER -> PyNone

\* json.dumps raises TypeError on an object it cannot encode
JsonDumpsRaises(v) ==
    /\ v.t = "list"
    /\ \E i \in 1..Len(v.items) : ~v.items[i].ser

\* json.dumps with the default separators ", " and ": "
JsonDumps(v) ==
    CASE v = PyDict("a=1") -> PyStr("{\"a\": 1}")
      [] v = PyList("1;2") -> PyStr("[1, 2]")
      [] v.t = "list" /\ v.s = "items" -> IF v.items = <<>> THEN PyStr("[]") ELSE PyDumped(v.items)
      [] v.t = "str" /\ v.s # "dumps" -> PyStr("\"" \o v.s \o "\"")
      [] v.t = "int" -> PyStr(v.s)
      [] v.t = "float" -> PyStr("NaN")
      [] v.t = "bool" -> PyStr("true")
      [] OTHER -> PyStr("null")

\* JSONResponse(content=...) renders in its constructor with allow_nan=False:
\* it raises on a NaN and on an object that is not JSON
RenderRaises(v) ==
    \/ v = PyNaN
    \/ JsonDumpsRaises(v)

(***************************************************************************)
(* Messages are sequences of strings: an f-string is the sequence of its   *)
(* literal parts and formatted values.                                     *)
(***************************************************************************)
\* format(v) inside an f-string: None prints as "None", a string as itself
PyFormat(v) == IF v.t = "none" THEN "None" ELSE v.s

\* an exception object; status is 0 unless it is an HTTPException
Exc(type, status, msg) == [type |-> type, status |-> status, msg |-> msg]
HTTPException(status, detail) == Exc("HTTPException", status, detail)

\* str(e): starlette's HTTPException prints "<status_code>: <detail>"
ExcStr(e) ==
    IF e.type = "HTTPException"
    THEN <<IF e.status = 404 THEN "404: " ELSE "500: ">> \o e.msg
    ELSE e.msg

\* what the libraries raise
JsonDecodeError == Exc("JSONDecodeError", 0, <<"Expecting value">>)
NotADictError == Exc("AttributeError", 0, <<"object has no attribute 'get'">>)
NotEncodableError == Exc("TypeError", 0, <<"Object is not JSON serializable">>)
NaNError == Exc("ValueError", 0, <<"Out of range float values are not JSON compliant">>)
HandlerError == Exc("Exception", 0, <<"handler failed">>)

\* the exception json.dumps or JSONResponse raises on v
EncodeError(v) == IF v = PyNaN THEN NaNError ELSE NotEncodableError

(***************************************************************************)
(* Tool handlers (the tools module): a handler has a name, describes       *)
(* itself and, run on arguments, returns a sequence of content items,      *)
(* raises, or does not return.                                             *)
(***************************************************************************)
ToolNames == {"t1", "t2"}
Handlers == {"h1", "h2"}
\* names a request may ask for; "nope" is never registered
RequestNames == ToolNames \cup {"nope"}

\* a content item: an object with a text attribute is not JSON-encodable as it
\* stands; an item without one may be (a dict) or may not be (an object)
ContentItems ==
    [hasText : {TRUE}, text : Texts, ser : {FALSE}]
        \cup [hasText : {FALSE}, text : {""}, ser : BOOLEAN]

RECURSIVE SeqsUpTo(_, _)
SeqsUpTo(S, n) ==
    IF n = 0 THEN {<<>>}
    ELSE LET shorter == SeqsUpTo(S, n - 1)
         IN  shorter \cup {Append(q, x) : q \in {r \in shorter : Len(r) = n - 1}, x \in S}

\* what handler.run_tool(arguments) may do
RunToolOutcomes ==
    [k : {"return"}, items : SeqsUpTo(ContentItems, MaxItems)]
        \cup [k : {"raise", "hang"}, items : {<<>>}]

\* handler.get_tool_description(): the descriptor of handler h registered as name
get_tool_description(name, h) ==
    [name |-> name, description |-> <<"description of ", h>>, inputSchema |-> <<"schema of ", h>>]

(***************************************************************************)
(* The registry: a dict in insertion order, here a sequence of entries.    *)
(***************************************************************************)
Keys(th) == [i \in 1..Len(th) |-> th[i].name]

\* name in tool_handlers, for a Python value name
Contains(th, v) == v.t = "str" /\ \E i \in 1..Len(th) : th[i].name = v.s

\* tool_handlers[name]
Lookup(th, v) == th[CHOOSE i \in 1..Len(th) : th[i].name = v.s]

\* a bug: a name that is already registered keeps its first handler
add_tool_handler_keep_first(th, name, h) ==
    IF \E i \in 1..Len(th) : th[i].name = name
    THEN th
    ELSE Append(th, [name |-> name, h |-> h])

\* tool_handlers[name] = handler: an existing key keeps its place
add_tool_handler(th, name, h) ==
    IF \E i \in 1..Len(th) : th[i].name = name
    THEN [i \in 1..Len(th) |-> IF th[i].name = name THEN [name |-> name, h |-> h] ELSE th[i]]
    ELSE Append(th, [name |-> name, h |-> h])

\* the listing loop of list_tools
ToolsList(th) ==
    [i \in 1..Len(th) |->
        LET d == get_tool_description(th[i].name, th[i].h)
        IN  [name |-> d.name, description |-> d.description, inputSchema |-> d.inputSchema]]

\* a bug: the listing comes out in reverse order
RpcToolsListReversed(th) ==
    [i \in 1..Len(th) |->
        LET d == get_tool_description(th[Len(th) + 1 - i].name, th[Len(th) + 1 - i].h)
        IN  [name |-> d.name, description |-> d.description, inputSchema |-> d.inputSchema]]

\* the same loop, written again in sse_call_tool
RpcToolsList(th) ==
    [i \in 1..Len(th) |->
        LET d == get_tool_description(th[i].name, th[i].h)
        IN  [name |-> d.name, description |-> d.description, inputSchema |-> d.inputSchema]]

(***************************************************************************)
(* What running the body of a handler's try block comes to: a response     *)
(* returned, an exception raised, or a tool handler that never returns.    *)
(* calls lists the tool handlers invoked, canon is result_data once it is  *)
(* computed.                                                               *)
(***************************************************************************)
NoResponse == [status |-> 0, raised |-> FALSE, body |-> [none |-> TRUE]]
NoExc == Exc("", 0, <<>>)

Return(status, body, calls, canon) ==
    [k |-> "return", resp |-> [status |-> status, raised |-> FALSE, body |-> body],
     exc |-> NoExc, calls |-> calls, canon |-> canon]
Raise(e, calls, canon) ==
    [k |-> "raise", resp |-> NoResponse, exc |-> e, calls |-> calls, canon |-> canon]
Hang(calls) ==
    [k |-> "hang", resp |-> NoResponse, exc |-> NoExc, calls |-> calls, canon |-> Absent]

\* an HTTPException that leaves the handler: FastAPI answers with its status and detail
Propagate(e, caught, calls, canon) ==
    [k |-> "return", resp |-> [status |-> e.status, raised |-> TRUE, body |-> [detail |-> e.msg]],
     exc |-> caught, calls |-> calls, canon |-> canon]

\* a response built in an except clause
Recover(status, body, caught, calls, canon) ==
    [k |-> "return", resp |-> [status |-> status, raised |-> FALSE, body |-> body],
     exc |-> caught, calls |-> calls, canon |-> canon]

\* handler.run_tool(arguments), as the log of invocations keeps it
Call(handler, arguments, outcome) ==
    [name |-> handler.name, h |-> handler.h, arguments |-> arguments, outcome |-> outcome]

\* dict.get(key, default)
Get(v, default) == IF v = Absent THEN default ELSE v

ArgsEmpty == PyDict("")
ArgsK == PyDict("k=v")

(***************************************************************************)
(* GET /, GET /health, GET /tools/list                                     *)
(***************************************************************************)
root ==
    Return(200, [service |-> "MCP Obsidian HTTP API", version |-> "0.2.1",
                 endpoints |-> [health |-> "/health", list_tools |-> "/tools/list",
                                call_tool |-> "/tools/call"]], <<>>, Absent)

health == Return(200, [status |-> "healthy", service |-> "mcp-obsidian"], <<>>, Absent)

list_tools(th) == Return(200, [tools |-> ToolsList(th)], <<>>, Absent)

(***************************************************************************)
(* POST /tools/call                                                        *)
(***************************************************************************)
\* a bug: the text is never parsed
NormalizeRestNoParse(result) ==
    IF result # <<>> /\ result[1].hasText THEN PyStr(result[1].text) ELSE PyItems(result)

\* result -> result_data, as call_tool computes it
NormalizeRest(result) ==
    IF result # <<>> /\ result[1].hasText
    THEN LET result_text == result[1].text
         IN  IF JsonLoadsRaises(result_text) THEN PyStr(result_text) ELSE JsonLoads(result_text)
    ELSE PyItems(result)

\* the detail of the 404
RestNotFoundDetail(th, name) ==
    <<"Tool '", name, "' not found. Available tools: ">> \o Keys(th)

\* the body of the try block
call_tool_try(th, name, arguments, outcome) ==
    IF ~Contains(th, PyStr(name))
    THEN Raise(HTTPException(404, RestNotFoundDetail(th, name)), <<>>, Absent)
    ELSE LET handler == Lookup(th, PyStr(name))
             call == Call(handler, arguments, outcome)
         IN  CASE outcome.k = "hang" -> Hang(<<call>>)
               [] outcome.k = "raise" -> Raise(HandlerError, <<call>>, Absent)
               [] OTHER ->
                    LET result_data == NormalizeRest(outcome.items)
                    IN  IF RenderRaises(result_data)
                        THEN Raise(EncodeError(result_data), <<call>>, result_data)
                        ELSE Return(200, [success |-> TRUE, tool |-> name, result |-> result_data],
                                    <<call>>, result_data)

\* a bug: no "except HTTPException: raise" before "except Exception"
call_tool_except_all(e) == HTTPException(500, ExcStr(e))

\* the except clauses: an HTTPException is raised again, anything else becomes a 500
call_tool_except(e) ==
    IF e.type = "HTTPException" THEN e ELSE HTTPException(500, ExcStr(e))

call_tool(th, name, arguments, outcome) ==
    LET r == call_tool_try(th, name, arguments, outcome)
    IN  IF r.k = "raise" THEN Propagate(call_tool_except(r.exc), r.exc, r.calls, r.canon) ELSE r

\* the body model of POST /tools/call: name a string, arguments a mapping
ToolCallRequest(name, arguments) == arguments.t = "dict"

\* the route: FastAPI validates the body against ToolCallRequest before it
\* calls call_tool, and answers a body that fails with 422 itself
post_tools_call(th, name, arguments, outcome) ==
    IF ToolCallRequest(name, arguments)
    THEN call_tool(th, name, arguments, outcome)
    ELSE Return(422, [detail |-> <<"validation error: arguments">>], <<>>, Absent)

(***************************************************************************)
(* POST /sse                                                               *)
(***************************************************************************)
MethodNotFoundCode == -32601
InternalErrorCode == -32603

\* a request body: kind is "malformed" (request.json() raises), "nonobject"
\* (JSON, but no object) or "object"; a key the object lacks is Absent
\* params is [t, name, arguments] with t "absent", "nonmap" or "map"
NoParams == [t |-> "absent", name |-> Absent, arguments |-> Absent]
BadParams == [t |-> "nonmap", name |-> Absent, arguments |-> Absent]
Body(kind, jsonrpc, id, method, params, name, arguments) ==
    [kind |-> kind, jsonrpc |-> jsonrpc, id |-> id, method |-> method, params |-> params,
     name |-> name, arguments |-> arguments]

\* a bug: the id is passed through str()
request_id_as_string(body) == PyStr(Get(body.id, PyNone).s)

\* request_id = body.get("id")
request_id(body) == Get(body.id, PyNone)

\* method = body.get("method", "")
method_of(body) == Get(body.method, PyStr(""))

\* a bug: the last item is inspected, not the first
NormalizeRpcLast(result) ==
    IF result # <<>> /\ result[Len(result)].hasText
    THEN LET result_text == result[Len(result)].text
         IN  IF JsonLoadsRaises(result_text) THEN PyStr(result_text) ELSE JsonLoads(result_text)
    ELSE PyItems(result)

\* result -> result_data, as sse_call_tool computes it
NormalizeRpc(result) ==
    IF result # <<>> /\ result[1].hasText
    THEN LET result_text == result[1].text
         IN  IF JsonLoadsRaises(result_text) THEN PyStr(result_text) ELSE JsonLoads(result_text)
    ELSE PyItems(result)

\* a bug: json.dumps whatever the type, which quotes a string
ContentTextAlwaysDumps(result_data) == JsonDumps(result_data)

\* json.dumps(result_data) if isinstance(result_data, (dict, list)) else result_data
ContentText(result_data) ==
    IF result_data.t \in {"dict", "list"} THEN JsonDumps(result_data) ELSE result_data

RpcResult(id, result) == [jsonrpc |-> "2.0", id |-> id, result |-> result]
RpcError(id, code, message) ==
    [jsonrpc |-> "2.0", id |-> id, error |-> [code |-> code, message |-> message]]

\* the result of a tools/call
CallResult(result_data) ==
    [content |-> <<[type |-> "text", text |-> ContentText(result_data)]>>]

InitializeResult ==
    [protocolVersion |-> "2024-11-05", capabilities |-> [tools |-> <<>>],
     serverInfo |-> [name |-> "mcp-obsidian", version |-> "0.2.1"]]

\* a bug: the JSON-RPC branch raises the 404 of the simple format
RpcToolNotFound404(body, tool_name) ==
    Raise(HTTPException(404, <<"Tool not found: ", PyFormat(tool_name)>>), <<>>, Absent)

\* the answer to a tools/call for a name the registry lacks
RpcToolNotFound(body, tool_name) ==
    Return(200, RpcError(request_id(body), MethodNotFoundCode,
                         <<"Tool not found: ", PyFormat(tool_name)>>), <<>>, Absent)

\* the tools/call branch
rpc_tools_call(th, body, outcome) ==
    IF body.params.t = "nonmap" THEN Raise(NotADictError, <<>>, Absent)
    ELSE
    LET tool_name == Get(body.params.name, PyNone)
        arguments == Get(body.params.arguments, ArgsEmpty)
    IN  IF ~Contains(th, tool_name)
        THEN RpcToolNotFound(body, tool_name)
        ELSE LET handler == Lookup(th, tool_name)
                 call == Call(handler, arguments, outcome)
             IN  CASE outcome.k = "hang" -> Hang(<<call>>)
                   [] outcome.k = "raise" -> Raise(HandlerError, <<call>>, Absent)
                   [] OTHER ->
                        LET result_data == NormalizeRpc(outcome.items)
                        IN  IF result_data.t \in {"dict", "list"} /\ JsonDumpsRaises(result_data)
                            THEN Raise(EncodeError(result_data), <<call>>, result_data)
                            ELSE IF RenderRaises(ContentText(result_data))
                            THEN Raise(EncodeError(ContentText(result_data)), <<call>>, result_data)
                            ELSE Return(200, RpcResult(request_id(body), CallResult(result_data)),
                                        <<call>>, result_data)

\* a bug: an unknown method is reported as an internal error
RpcMethodNotFoundInternal(body, method) ==
    Return(500, RpcError(request_id(body), InternalErrorCode,
                         <<"Method not found: ", PyFormat(method)>>), <<>>, Absent)

\* the answer to a method that is none of the three
RpcMethodNotFound(body, method) ==
    Return(200, RpcError(request_id(body), MethodNotFoundCode,
                         <<"Method not found: ", PyFormat(method)>>), <<>>, Absent)

\* the branch on method of a JSON-RPC 2.0 body
rpc_dispatch(th, body, outcome) ==
    LET method == method_of(body)
    IN  CASE method = PyStr("tools/list") ->
                Return(200, RpcResult(request_id(body), [tools |-> RpcToolsList(th)]), <<>>, Absent)
          [] method = PyStr("tools/call") -> rpc_tools_call(th, body, outcome)
          [] method = PyStr("initialize") ->
                Return(200, RpcResult(request_id(body), InitializeResult), <<>>, Absent)
          [] OTHER -> RpcMethodNotFound(body, method)

\* the fallback to the simple format
simple_call(th, body, outcome) ==
    LET tool_name == Get(body.name, PyNone)
        arguments == Get(body.arguments, ArgsEmpty)
    IN  IF ~Contains(th, tool_name)
        THEN Raise(HTTPException(404, <<"Tool not found: ", PyFormat(tool_name)>>), <<>>, Absent)
        ELSE LET handler == Lookup(th, tool_name)
                 call == Call(handler, arguments, outcome)
             IN  CASE outcome.k = "hang" -> Hang(<<call>>)
                   [] outcome.k = "raise" -> Raise(HandlerError, <<call>>, Absent)
                   [] OTHER ->
                        IF RenderRaises(PyItems(outcome.items))
                        THEN Raise(EncodeError(PyItems(outcome.items)), <<call>>, Absent)
                        ELSE Return(200, [success |-> TRUE, result |-> PyItems(outcome.items)],
                                    <<call>>, Absent)

\* the body of the try block
sse_call_tool_try(th, body, outcome) ==
    CASE body.kind = "malformed" -> Raise(JsonDecodeError, <<>>, Absent)
      [] body.kind = "nonobject" -> Raise(NotADictError, <<>>, Absent)
      [] OTHER ->
            IF body.jsonrpc = PyStr("2.0")
            THEN rpc_dispatch(th, body, outcome)
            ELSE simple_call(th, body, outcome)

\* a bug: the error envelope also carries a null result
sse_call_tool_except_with_result(e) ==
    [jsonrpc |-> "2.0", result |-> PyNone,
     error |-> [code |-> InternalErrorCode, message |-> ExcStr(e)]]

\* the except clause: any Exception, an HTTPException too, becomes a 500
sse_call_tool_except(e) ==
    [jsonrpc |-> "2.0", error |-> [code |-> InternalErrorCode, message |-> ExcStr(e)]]

sse_call_tool(th, body, outcome) ==
    LET r == sse_call_tool_try(th, body, outcome)
    IN  IF r.k = "raise" THEN Recover(500, sse_call_tool_except(r.exc), r.exc, r.calls, r.canon) ELSE r

(***************************************************************************)
(* The state.                                                              *)
(***************************************************************************)
VARIABLES
    tool_handlers,  \* the registry, in insertion order
    registered,     \* history: the add_tool_handler calls made, in order
    phase,          \* "startup" while the module registers its tools, then "serving"
    req,            \* the request handled last
    resp,           \* the response to it
    calls,          \* the tool handlers invoked while handling it
    canon,          \* result_data computed while handling it, Absent if none
    exc,            \* the exception its try block raised, NoExc if none
    blocked,        \* a tool handler that does not return holds the event loop
    pc,             \* per GET /sse stream: where its generator stands
    connected,      \* per stream: the client is still connected
    events          \* per stream: what the generator has yielded so far

gateway_vars == <<req, resp, calls, canon, exc, blocked>>
sse_vars == <<pc, connected, events>>
vars == <<tool_handlers, registered, phase, req, resp, calls, canon, exc, blocked, pc, connected, events>>

Streams == {"s1", "s2"}

NoRequest == [endpoint |-> "", body |-> [none |-> TRUE]]

Init ==
    /\ tool_handlers = <<>>
    /\ registered = <<>>
    /\ phase = "startup"
    /\ req = NoRequest
    /\ resp = NoResponse
    /\ calls = <<>>
    /\ canon = Absent
    /\ exc = NoExc
    /\ blocked = FALSE
    /\ pc = [s \in Streams |-> "idle"]
    /\ connected = [s \in Streams |-> FALSE]
    /\ events = [s \in Streams |-> <<>>]

(***************************************************************************)
(* Startup: the module registers its tools, then the server serves.        *)
(***************************************************************************)
\* the last call of the history log that registered name
LastCall(log, name) ==
    log[CHOOSE i \in 1..Len(log) :
            log[i].name = name /\ \A j \in (i + 1)..Len(log) : log[j].name # name]

\* the calls of a history that still count: per name its last call, the names
\* in the order of their first calls
Compact(log) ==
    LET firsts == {i \in 1..Len(log) : \A j \in 1..(i - 1) : log[j].name # log[i].name}
        kth(k) == CHOOSE i \in firsts : Cardinality({j \in firsts : j < i}) = k - 1
    IN  [k \in 1..Cardinality(firsts) |-> LastCall(log, log[kth(k)].name)]

\* one of the add_tool_handler(...) lines of the module
Register(name, h) ==
    /\ phase = "startup"
    /\ Len(registered) < MaxRegister
    /\ tool_handlers' = add_tool_handler(tool_handlers, name, h)
    /\ registered' = Append(registered, [name |-> name, h |-> h])
    /\ UNCHANGED <<phase, gateway_vars, sse_vars>>

\* the module has registered every tool it has when the server starts; from
\* here on the history keeps only the calls that still count
StartServing ==
    /\ phase = "startup"
    /\ {tool_handlers[i].name : i \in 1..Len(tool_handlers)} = ToolNames
    /\ phase' = "serving"
    /\ registered' = Compact(registered)
    /\ UNCHANGED <<tool_handlers, gateway_vars, sse_vars>>

Startup ==
    \/ \E name \in ToolNames, h \in Handlers : Register(name, h)
    \/ StartServing

(***************************************************************************)
(* Requests.                                                               *)
(***************************************************************************)
Ids == {Absent, PyNone, PyInt("1"), PyStr("1")}
Methods ==
    {Absent, PyNone, PyStr("initialize"), PyStr("tools/list"), PyStr("tools/call"), PyStr("ping")}
NameValues == {Absent} \cup {PyStr(n) : n \in RequestNames}
ArgumentValues == {Absent, ArgsK}
ParamsValues ==
    {NoParams, BadParams} \cup [t : {"map"}, name : NameValues, arguments : ArgumentValues]

\* the bodies POST /sse is tried on
RpcBodies ==
    {Body("object", PyStr("2.0"), id, method, params, Absent, Absent) :
        id \in Ids, method \in Methods, params \in ParamsValues}
SimpleBodies ==
    {Body("object", jsonrpc, id, Absent, NoParams, name, arguments) :
        jsonrpc \in {Absent, PyStr("1.0")}, id \in {Absent, PyInt("1")},
        name \in NameValues, arguments \in ArgumentValues}
BrokenBodies ==
    {Body(kind, Absent, Absent, Absent, NoParams, Absent, Absent) : kind \in {"malformed", "nonobject"}}
Bodies == RpcBodies \cup SimpleBodies \cup BrokenBodies

\* the server takes a request when it serves and the event loop is free
Idle ==
    /\ phase = "serving"
    /\ ~blocked
    /\ req = NoRequest

\* a bug: the handler is popped from the registry when it is looked up
HandlePopping(endpoint, body, r) ==
    /\ req' = [endpoint |-> endpoint, body |-> body]
    /\ resp' = r.resp
    /\ calls' = r.calls
    /\ canon' = r.canon
    /\ exc' = r.exc
    /\ blocked' = (r.k = "hang")
    /\ tool_handlers' =
            SelectSeq(tool_handlers, LAMBDA e : \A i \in 1..Len(r.calls) : r.calls[i].name # e.name)
    /\ UNCHANGED <<registered, phase, sse_vars>>

\* a request is handled in one step; r is what its handler comes to
Handle(endpoint, body, r) ==
    /\ req' = [endpoint |-> endpoint, body |-> body]
    /\ resp' = r.resp
    /\ calls' = r.calls
    /\ canon' = r.canon
    /\ exc' = r.exc
    /\ blocked' = (r.k = "hang")
    /\ UNCHANGED <<tool_handlers, registered, phase, sse_vars>>

GetRoot == Idle /\ Handle("GET /", [none |-> TRUE], root)

GetHealth == Idle /\ Handle("GET /health", [none |-> TRUE], health)

GetToolsList == Idle /\ Handle("GET /tools/list", [none |-> TRUE], list_tools(tool_handlers))

\* the arguments a POST /tools/call body may carry: a mapping, none, a list
RestArguments == {ArgsEmpty, ArgsK, Absent, PyList("1;2")}

PostToolsCall ==
    /\ Idle
    /\ \E name \in RequestNames, arguments \in RestArguments, outcome \in RunToolOutcomes :
        Handle("POST /tools/call", [name |-> name, arguments |-> arguments],
               post_tools_call(tool_handlers, name, arguments, outcome))

PostSse ==
    /\ Idle
    /\ \E body \in Bodies, outcome \in RunToolOutcomes :
        Handle("POST /sse", body, sse_call_tool(tool_handlers, body, outcome))

\* the response is sent and the handler's locals are gone: nothing of the
\* request is left but the registry
Respond ==
    /\ req # NoRequest
    /\ ~blocked
    /\ req' = NoRequest
    /\ resp' = NoResponse
    /\ calls' = <<>>
    /\ canon' = Absent
    /\ exc' = NoExc
    /\ UNCHANGED <<tool_handlers, registered, phase, blocked, sse_vars>>

Requests == GetRoot \/ GetHealth \/ GetToolsList \/ PostToolsCall \/ PostSse \/ Respond

(***************************************************************************)
(* GET /sse: event_generator, one step per suspension point.               *)
(***************************************************************************)
ConnectionEvent == [type |-> "connection", status |-> "connected"]
KeepAlive == [type |-> "keep-alive", status |-> ""]
ErrorEvent == [type |-> "error", status |-> "exception text"]

KeepAlives(s) == Len(SelectSeq(events[s], LAMBDA e : e = KeepAlive))

\* the client opens a stream: sse_endpoint returns the StreamingResponse
SseOpen(s) ==
    /\ phase = "serving" /\ ~blocked
    /\ pc[s] = "idle"
    /\ pc' = [pc EXCEPT ![s] = "start"]
    /\ connected' = [connected EXCEPT ![s] = TRUE]
    /\ UNCHANGED <<tool_handlers, registered, phase, gateway_vars, events>>

\* the client goes away, at any time
SseDisconnect(s) ==
    /\ connected[s]
    /\ connected' = [connected EXCEPT ![s] = FALSE]
    /\ UNCHANGED <<tool_handlers, registered, phase, gateway_vars, pc, events>>

\* yield the connection event
SseHello(s) ==
    /\ ~blocked
    /\ pc[s] = "start"
    /\ events' = [events EXCEPT ![s] = Append(@, ConnectionEvent)]
    /\ pc' = [pc EXCEPT ![s] = "check"]
    /\ UNCHANGED <<tool_handlers, registered, phase, gateway_vars, connected>>

\* a bug: the loop does not look at the disconnect
SseCheckNoBreak(s) ==
    /\ ~blocked
    /\ pc[s] = "check"
    /\ pc' = [pc EXCEPT ![s] = "sleep"]
    /\ UNCHANGED <<tool_handlers, registered, phase, gateway_vars, connected, events>>

\* a bug: the test is the wrong way round
SseCheckInverted(s) ==
    /\ ~blocked
    /\ pc[s] = "check"
    /\ pc' = [pc EXCEPT ![s] = IF connected[s] THEN "done" ELSE "sleep"]
    /\ UNCHANGED <<tool_handlers, registered, phase, gateway_vars, connected, events>>

\* if await request.is_disconnected(): break
SseCheck(s) ==
    /\ ~blocked
    /\ pc[s] = "check"
    /\ pc' = [pc EXCEPT ![s] = IF connected[s] THEN "sleep" ELSE "done"]
    /\ UNCHANGED <<tool_handlers, registered, phase, gateway_vars, connected, events>>

\* await asyncio.sleep(1) is over: yield the keep-alive (the bound holds back
\* a stream whose client is there; a stream whose client has gone has one
\* keep-alive left at most)
SseKeepAlive(s) ==
    /\ ~blocked
    /\ pc[s] = "sleep"
    /\ KeepAlives(s) < MaxKeepAlive \/ ~connected[s]
    /\ events' = [events EXCEPT ![s] = Append(@, KeepAlive)]
    /\ pc' = [pc EXCEPT ![s] = "check"]
    /\ UNCHANGED <<tool_handlers, registered, phase, gateway_vars, connected>>

\* a bug: after the error event the loop goes on
SseErrorGoesOn(s) ==
    /\ ~blocked
    /\ pc[s] \in {"check", "sleep"}
    /\ events' = [events EXCEPT ![s] = Append(@, ErrorEvent)]
    /\ pc' = [pc EXCEPT ![s] = "check"]
    /\ UNCHANGED <<tool_handlers, registered, phase, gateway_vars, connected>>

\* an await of the loop raises: except Exception yields the error event and the generator ends
SseError(s) ==
    /\ ~blocked
    /\ pc[s] \in {"check", "sleep"}
    /\ events' = [events EXCEPT ![s] = Append(@, ErrorEvent)]
    /\ pc' = [pc EXCEPT ![s] = "done"]
    /\ UNCHANGED <<tool_handlers, registered, phase, gateway_vars, connected>>

SseStep(s) ==
    \/ SseOpen(s)
    \/ SseDisconnect(s)
    \/ SseHello(s)
    \/ SseCheck(s)
    \/ SseKeepAlive(s)
    \/ SseError(s)

SseNext == \E s \in Streams : SseStep(s)

(***************************************************************************)
(* Specifications: the gateway's requests; the streams, without and with   *)
(* fair scheduling of their generators; the requests and a stream.         *)
(***************************************************************************)
Next == Startup \/ Requests

Spec == Init /\ [][Next]_vars

NextSse == Startup \/ SseNext

SpecSse == Init /\ [][NextSse]_vars

\* the event loop runs a generator that can run: its awaits return (the
\* disconnect test answers, the sleep of one second ends) and the response
\* takes what it yields; that an await raises is not promised
SseFairness == \A s \in Streams : WF_vars(SseHello(s) \/ SseCheck(s) \/ SseKeepAlive(s))

FairSpecSse == SpecSse /\ SseFairness

\* the requests and one stream together, as the event loop interleaves them
TheStream == "s1"

NextAll == Startup \/ Requests \/ SseStep(TheStream)

SpecAll == Init /\ [][NextAll]_vars

(***************************************************************************)
(* What the properties below read off a state.                             *)
(***************************************************************************)
\* the request handled is a POST /sse whose body is a JSON-RPC 2.0 object
IsRpc ==
    /\ req.endpoint = "POST /sse"
    /\ req.body.kind = "object"
    /\ req.body.jsonrpc = PyStr("2.0")

\* ... with this method
IsRpcMethod(m) == IsRpc /\ req.body.method = PyStr(m)

\* the request handled is a POST /sse whose body is an object, but no JSON-RPC 2.0
IsSimple ==
    /\ req.endpoint = "POST /sse"
    /\ req.body.kind = "object"
    /\ req.body.jsonrpc # PyStr("2.0")

IsRestCall == req.endpoint = "POST /tools/call"

\* the handler came to a response without raising
Completed == req # NoRequest /\ exc = NoExc /\ ~blocked

Registered(name) == \E i \in 1..Len(tool_handlers) : tool_handlers[i].name = name
RegisteredNames == {tool_handlers[i].name : i \in 1..Len(tool_handlers)}

\* the tool handler ran and returned
HandlerReturned == calls # <<>> /\ calls[1].outcome.k = "return"

\* the canonical result of a handler's output, in the words of the specification
CanonicalResult(items) ==
    IF Len(items) > 0 /\ items[1].hasText
    THEN IF JsonLoadsRaises(items[1].text) THEN PyStr(items[1].text) ELSE JsonLoads(items[1].text)
    ELSE PyItems(items)

(***************************************************************************)
(* C1: a JSON-RPC 2.0 request whose dispatch raises nothing is answered    *)
(* with the id of the request: the same integer, string or null, and null  *)
(* when the request has no id; the id is never dropped.                    *)
(***************************************************************************)
C1_IdEchoed ==
    (IsRpc /\ Completed) =>
        /\ "id" \in DOMAIN resp.body
        /\ resp.body.id = (IF req.body.id = Absent THEN PyNone ELSE req.body.id)

\* a tools/call that ran a handler and answers with the integer id 1
C1_Witness ==
    /\ IsRpcMethod("tools/call") /\ Completed /\ HandlerReturned
    /\ req.body.id = PyInt("1")
    /\ resp.body.id = PyInt("1")

(***************************************************************************)
(* C2: when the dispatch of a POST /sse raises, the response is HTTP 500   *)
(* with a JSON-RPC error of code -32603 whose message is the exception     *)
(* text, and when the body was parsed and carried an id the response       *)
(* carries that id (stated here for the bodies that are JSON-RPC 2.0       *)
(* envelopes with a number or a string as id).                             *)
(***************************************************************************)
C2_ErrorCarriesId ==
    (req.endpoint = "POST /sse" /\ exc # NoExc) =>
        /\ resp.status = 500
        /\ resp.body.error.code = InternalErrorCode
        /\ resp.body.error.message = ExcStr(exc)
        /\ (IsRpc /\ req.body.id \notin {Absent, PyNone}) =>
                ("id" \in DOMAIN resp.body /\ resp.body.id = req.body.id)

(***************************************************************************)
(* C3: a JSON-RPC tools/call (params an object, or absent) whose name is   *)
(* missing or not registered is answered with HTTP 200 and an error of     *)
(* code -32601, message "Tool not found: <name>" (None for a missing       *)
(* name), with no result, and no tool handler is invoked.                  *)
(***************************************************************************)
C3_ToolNotFound ==
    (/\ IsRpcMethod("tools/call")
     /\ req.body.params.t # "nonmap"
     /\ (req.body.params.name = Absent \/ ~Registered(req.body.params.name.s))) =>
        /\ resp.status = 200 /\ ~resp.raised
        /\ DOMAIN resp.body = {"jsonrpc", "id", "error"}
        /\ resp.body.error.code = -32601
        /\ resp.body.error.message =
                <<"Tool not found: ",
                  IF req.body.params.name = Absent THEN "None" ELSE req.body.params.name.s>>
        /\ calls = <<>>

\* a tools/call for a name that is not among the two registered ones
C3_Witness ==
    /\ IsRpcMethod("tools/call")
    /\ req.body.params.name = PyStr("nope")
    /\ Len(tool_handlers) = 2
    /\ resp.status = 200

(***************************************************************************)
(* C4: a POST /sse body that is an object but no JSON-RPC 2.0 envelope     *)
(* comes to what the JSON-RPC tools/call with params {name, arguments}     *)
(* comes to on the same handler outcome: the same HTTP status, the same    *)
(* error code when that is an error (HTTP 200 with -32601 for an           *)
(* unregistered name), and, when that is a result, a result made of the    *)
(* normalized handler output.                                              *)
(***************************************************************************)
AsToolsCall(body) ==
    Body("object", PyStr("2.0"), body.id, PyStr("tools/call"),
         [t |-> "map", name |-> body.name, arguments |-> body.arguments], Absent, Absent)

C4_SimpleShapeIsToolsCall ==
    (IsSimple /\ ~blocked) =>
        LET outcome == IF calls = <<>> THEN [k |-> "return", items |-> <<>>] ELSE calls[1].outcome
            rpc == sse_call_tool(tool_handlers, AsToolsCall(req.body), outcome).resp
        IN  /\ resp.status = rpc.status
            /\ "error" \in DOMAIN rpc.body =>
                    /\ "error" \in DOMAIN resp.body
                    /\ resp.body.error.code = rpc.body.error.code
            /\ "result" \in DOMAIN rpc.body =>
                    /\ "result" \in DOMAIN resp.body
                    /\ resp.body.result \in {CanonicalResult(outcome.items), rpc.body.result}

(***************************************************************************)
(* C5: a response body of POST /sse that is a JSON-RPC envelope has        *)
(* exactly one of result and error, on the dispatch branches and on the    *)
(* exception path.                                                         *)
(***************************************************************************)
C5_ResultXorError ==
    (req.endpoint = "POST /sse" /\ "jsonrpc" \in DOMAIN resp.body) =>
        (("result" \in DOMAIN resp.body) # ("error" \in DOMAIN resp.body))

\* the envelope of the exception path, after a handler raised
C5_Witness ==
    /\ req.endpoint = "POST /sse"
    /\ exc = HandlerError
    /\ "jsonrpc" \in DOMAIN resp.body
    /\ "error" \in DOMAIN resp.body

(***************************************************************************)
(* C6: POST /tools/call with a body {name, arguments} for a name that is   *)
(* not registered answers HTTP 404 (not 500), its message lists every      *)
(* registered name, and no tool handler is invoked.                        *)
(***************************************************************************)
C6_RestNotFound ==
    (IsRestCall /\ req.body.arguments.t = "dict" /\ ~Registered(req.body.name)) =>
        /\ resp.status = 404
        /\ resp.raised
        /\ Len(resp.body.detail) = 3 + Len(tool_handlers)
        /\ resp.body.detail[2] = req.body.name
        /\ {resp.body.detail[i] : i \in 4..Len(resp.body.detail)} = RegisteredNames
        /\ calls = <<>>

\* the 404 with two names listed
C6_Witness ==
    /\ IsRestCall /\ req.body.name = "nope"
    /\ Cardinality(RegisteredNames) = 2
    /\ resp.status = 404

(***************************************************************************)
(* C7, as claimed: for a registered name and a handler that returns,       *)
(* POST /tools/call answers success: true, the requested name as tool, and *)
(* the canonical form of the handler's output as result.                   *)
(***************************************************************************)
C7_RestSuccess ==
    (IsRestCall /\ Registered(req.body.name) /\ HandlerReturned) =>
        /\ resp.status = 200 /\ ~resp.raised
        /\ DOMAIN resp.body = {"success", "tool", "result"}
        /\ resp.body.success = TRUE
        /\ resp.body.tool = req.body.name
        /\ resp.body.result = CanonicalResult(calls[1].outcome.items)

\* a canonical result JSONResponse can render: no NaN (allow_nan=False) and no
\* content item that is not JSON
Renderable(v) ==
    /\ v # PyNaN
    /\ v.t = "list" => \A i \in 1..Len(v.items) : v.items[i].ser

(***************************************************************************)
(* C7, amended: for a registered name and a handler that returns,          *)
(* POST /tools/call answers success: true, the requested name as tool and  *)
(* the canonical form of the handler's output as result whenever that      *)
(* canonical result can be rendered as JSON; when it cannot (a NaN, a      *)
(* sequence holding an item that is not JSON) the answer is HTTP 500.      *)
(***************************************************************************)
C7_RestSuccessIfRenderable ==
    (IsRestCall /\ Registered(req.body.name) /\ HandlerReturned) =>
        IF Renderable(CanonicalResult(calls[1].outcome.items))
        THEN /\ resp.status = 200 /\ ~resp.raised
             /\ DOMAIN resp.body = {"success", "tool", "result"}
             /\ resp.body.success = TRUE
             /\ resp.body.tool = req.body.name
             /\ resp.body.result = CanonicalResult(calls[1].outcome.items)
        ELSE resp.status = 500 /\ resp.raised

\* a handler returned the text of a JSON object, and the result is the object
C7_Witness ==
    /\ IsRestCall /\ HandlerReturned
    /\ Len(calls[1].outcome.items) = 1
    /\ calls[1].outcome.items[1].text = TextObj
    /\ resp.status = 200
    /\ resp.body.result = PyDict("a=1")

(***************************************************************************)
(* C8: on POST /tools/call and on JSON-RPC tools/call alike, result_data   *)
(* is one of three things: the parsed value when the output is not empty,  *)
(* its first item has a text and the text parses; that text, unchanged,    *)
(* when it does not parse; the raw sequence when the output is empty or    *)
(* its first item has no text.  Which of the three, and the value in the   *)
(* first two, is decided by the first item alone.                          *)
(***************************************************************************)
C8_Normalization ==
    ((IsRestCall \/ IsRpcMethod("tools/call")) /\ HandlerReturned) =>
        LET items == calls[1].outcome.items
            first_has_text == Len(items) > 0 /\ items[1].hasText
        IN  /\ (first_has_text /\ ~JsonLoadsRaises(items[1].text)) =>
                    canon = JsonLoads(items[1].text)
            /\ (first_has_text /\ JsonLoadsRaises(items[1].text)) =>
                    canon = PyStr(items[1].text)
            /\ ~first_has_text => canon = PyItems(items)

\* two items, the second of which would parse: the first, plain, decides
C8_Witness ==
    /\ IsRpcMethod("tools/call") /\ HandlerReturned
    /\ Len(calls[1].outcome.items) = 2
    /\ calls[1].outcome.items[1].text = TextPlain
    /\ calls[1].outcome.items[2].text = TextArr
    /\ canon = PyStr(TextPlain)

(***************************************************************************)
(* C9: a successful JSON-RPC tools/call answers result.content with one    *)
(* item of type "text"; its text is the JSON encoding of result_data when  *)
(* that is an object or an array, and result_data itself, unquoted, when   *)
(* it is a string.                                                         *)
(***************************************************************************)
C9_ContentText ==
    (IsRpcMethod("tools/call") /\ Completed /\ HandlerReturned) =>
        /\ DOMAIN resp.body.result = {"content"}
        /\ Len(resp.body.result.content) = 1
        /\ resp.body.result.content[1].type = "text"
        /\ canon.t \in {"dict", "list"} => resp.body.result.content[1].text = JsonDumps(canon)
        /\ canon.t = "str" => resp.body.result.content[1].text = canon

\* the handler's text is the JSON string "q": the content text is q, without quotes
C9_Witness ==
    /\ IsRpcMethod("tools/call") /\ Completed /\ HandlerReturned
    /\ Len(calls[1].outcome.items) = 1
    /\ calls[1].outcome.items[1].text = TextQuoted
    /\ resp.body.result.content[1].text = PyStr("q")

(***************************************************************************)
(* C10, as claimed: once the client of a GET /sse stream has disconnected  *)
(* after the connection event, at whatever point, also during the wait of  *)
(* the keep-alive interval, the generator yields no further event on that  *)
(* stream.  (Read in the claim's favour: a step in which an await raises   *)
(* and the error event is yielded is not held against it.)                 *)
(***************************************************************************)
C10_NoEventAfterDisconnect ==
    [][\A s \in Streams :
          (~connected[s] /\ events[s] # <<>>) =>
              \/ events'[s] = events[s]
              \/ events'[s] = Append(events[s], ErrorEvent)]_vars

(***************************************************************************)
(* C10, amended: a disconnect after the connection event is noticed at the *)
(* loop's next disconnect check, which ends the generator with no event;   *)
(* after the disconnect the generator yields nothing but the keep-alive    *)
(* whose wait was under way when the client went (one at most, followed by *)
(* that check), or the error event if an await of the loop raises; once    *)
(* it has ended it yields nothing.                                         *)
(***************************************************************************)
C10_EndsAtNextCheck ==
    [][\A s \in Streams :
          (~connected[s] /\ events[s] # <<>>) =>
              \/ /\ events'[s] = events[s]
                 /\ pc[s] = "check" => pc'[s] \in {"check", "done"}
                 /\ pc[s] = "done" => pc'[s] = "done"
              \/ /\ pc[s] = "sleep"
                 /\ events'[s] = Append(events[s], KeepAlive)
                 /\ pc'[s] = "check"
              \/ /\ pc[s] \in {"check", "sleep"}
                 /\ events'[s] = Append(events[s], ErrorEvent)
                 /\ pc'[s] = "done"]_vars

\* the client is gone, the check has ended the generator, and the keep-alive
\* of the wait is the last event: no error event
C10_Witness ==
    \E s \in Streams :
        /\ ~connected[s]
        /\ pc[s] = "done"
        /\ events[s] = <<ConnectionEvent, KeepAlive>>

(***************************************************************************)
(* C11: what a GET /sse stream has emitted is always the connection event  *)
(* {type: connection, status: connected} first, then keep-alive comment    *)
(* lines that carry no payload, then at most one error event, which is the *)
(* last: nothing comes before the connection event or after an error       *)
(* event, the generator has ended once the error event is out, and no step *)
(* of a stream invokes a tool handler.                                     *)
(***************************************************************************)
C11_StreamShape ==
    /\ \A s \in Streams :
         /\ events[s] # <<>> => events[s][1] = ConnectionEvent
         /\ \A i \in 2..Len(events[s]) :
                \/ events[s][i] = KeepAlive /\ KeepAlive.status = ""
                \/ events[s][i] = ErrorEvent /\ i = Len(events[s]) /\ pc[s] = "done"
         /\ pc[s] \in {"idle", "start"} <=> events[s] = <<>>
    /\ calls = <<>>

\* connection event, one keep-alive, then the error event that ends the stream
C11_Witness ==
    \E s \in Streams :
        /\ events[s] = <<ConnectionEvent, KeepAlive, ErrorEvent>>
        /\ pc[s] = "done"

(***************************************************************************)
(* C12: an exception raised while POST /tools/call invokes a registered    *)
(* handler, normalizes its output or builds the response is answered with  *)
(* HTTP 500 carrying the exception's message; and every request to         *)
(* POST /tools/call or POST /sse whose tool handler, if one runs, returns  *)
(* or raises, is answered with status 200, 404 or 500.                     *)
(***************************************************************************)
C12_EveryFailureIsA500 ==
    /\ (IsRestCall /\ calls # <<>> /\ exc # NoExc) =>
            /\ resp.status = 500
            /\ resp.body.detail = ExcStr(exc)
    /\ (req.endpoint \in {"POST /tools/call", "POST /sse"} /\ ~blocked) =>
            resp.status \in {200, 404, 500}

(***************************************************************************)
(* C13: whatever requests came before, GET /tools/list and the JSON-RPC    *)
(* tools/list answer the same sequence: one descriptor {name, description, *)
(* inputSchema} per registered name, that of the handler registered last   *)
(* under the name, the names in the order in which they were first         *)
(* registered.  Both answers are this one function of the registrations,   *)
(* so a listing repeated gives the same sequence again.                    *)
(***************************************************************************)
ExpectedListing ==
    [k \in 1..Len(Compact(registered)) |->
        get_tool_description(Compact(registered)[k].name, Compact(registered)[k].h)]

C13_SameListing ==
    /\ req.endpoint = "GET /tools/list" =>
            /\ resp.status = 200
            /\ resp.body.tools = ExpectedListing
    /\ IsRpcMethod("tools/list") =>
            /\ resp.status = 200
            /\ resp.body.result.tools = ExpectedListing
    /\ phase = "serving" =>
            /\ Len(ExpectedListing) = Cardinality(RegisteredNames)
            /\ {ExpectedListing[k].name : k \in 1..Len(ExpectedListing)} = RegisteredNames
            /\ \A k \in 1..Len(ExpectedListing) :
                    DOMAIN ExpectedListing[k] = {"name", "description", "inputSchema"}

\* t2 was registered before t1, and the JSON-RPC listing after startup says so
C13_Witness ==
    /\ IsRpcMethod("tools/list")
    /\ Len(resp.body.result.tools) = 2
    /\ resp.body.result.tools[1].name = "t2"
    /\ resp.body.result.tools[2].name = "t1"
    /\ registered[1].name = "t2"

(***************************************************************************)
(* C14: once the server serves, no step of any request (GET /, /health,    *)
(* /tools/list, /sse and its stream, POST /tools/call, POST /sse), whether *)
(* it succeeds, answers not-found or raises, and however the requests and  *)
(* the stream interleave, changes the registry: names, handlers and order  *)
(* stay what startup left; and when the response of a request is out       *)
(* nothing of the request is kept.                                         *)
(***************************************************************************)
C14_RegistryFrozen ==
    [][phase = "serving" =>
          /\ tool_handlers' = tool_handlers
          /\ tool_handlers' = registered
          /\ phase' = "serving"
          /\ req' = NoRequest =>
                (resp' = NoResponse /\ calls' = <<>> /\ canon' = Absent /\ exc' = NoExc)]_vars

\* a handler has just raised while a stream waits for its keep-alive, and the
\* registry is the one startup left, both tools in it
C14_Witness ==
    /\ phase = "serving"
    /\ exc = HandlerError
    /\ pc[TheStream] = "sleep"
    /\ Len(tool_handlers) = 2
    /\ tool_handlers = registered

(***************************************************************************)
(* C15: a JSON-RPC 2.0 request to POST /sse whose method is none of        *)
(* initialize, tools/list and tools/call (a request without a method, or   *)
(* with a null one, too) is answered with an error of code -32601 and the  *)
(* message "Method not found: <method>" (empty for no method, None for     *)
(* null), with no result and no tool handler invoked; a request with one   *)
(* of the three methods is never answered "Method not found".              *)
(***************************************************************************)
RecognizedMethods == {PyStr("initialize"), PyStr("tools/list"), PyStr("tools/call")}

C15_MethodNotFound ==
    /\ (IsRpc /\ req.body.method \notin RecognizedMethods) =>
            /\ resp.status = 200
            /\ DOMAIN resp.body = {"jsonrpc", "id", "error"}
            /\ resp.body.error.code = -32601
            /\ resp.body.error.message =
                    <<"Method not found: ",
                      CASE req.body.method = Absent -> ""
                        [] req.body.method = PyNone -> "None"
                        [] OTHER -> req.body.method.s>>
            /\ calls = <<>>
    /\ (IsRpc /\ req.body.method \in RecognizedMethods /\ "error" \in DOMAIN resp.body) =>
            resp.body.error.message[1] # "Method not found: "

\* a request for the method ping, with the id 1, has its error
C15_Witness ==
    /\ IsRpcMethod("ping")
    /\ req.body.id = PyInt("1")
    /\ resp.body.error.code = -32601
    /\ resp.body.error.message = <<"Method not found: ", "ping">>

(***************************************************************************)
(* C16: in every successful answer to a JSON-RPC tools/call the text of    *)
(* the one content item is a string, whatever the handler returned: a text *)
(* that parses to a number, a boolean or null, an empty sequence, a first  *)
(* item without a text.                                                    *)
(***************************************************************************)
C16_ContentTextIsString ==
    (IsRpcMethod("tools/call") /\ resp.status = 200 /\ "result" \in DOMAIN resp.body) =>
        /\ Len(resp.body.result.content) = 1
        /\ resp.body.result.content[1].text.t = "str"

(***************************************************************************)
(* C17: a tool handler that is slow or hangs stalls only the task that     *)
(* invoked it.  Stated for the case that shows both kinds of other task:   *)
(* while a POST /tools/call or POST /sse is inside a handler invocation    *)
(* and an open stream waits out its keep-alive interval, another request   *)
(* (GET /health) can be handled and the stream can emit its keep-alive.    *)
(***************************************************************************)
C17_HangStallsOnlyItsTask ==
    \A s \in Streams :
        (/\ blocked
         /\ calls # <<>>
         /\ pc[s] = "sleep"
         /\ KeepAlives(s) < MaxKeepAlive) =>
            /\ ENABLED GetHealth
            /\ ENABLED SseKeepAlive(s)

(***************************************************************************)
(* C18: under fair scheduling of the generator, a stream whose client has  *)
(* disconnected eventually ends; once it has ended it yields nothing and   *)
(* runs no further iteration; it ends only when a disconnect is seen or an *)
(* exception is raised, never on its own while the client is connected;    *)
(* and a stream whose client stays keeps emitting keep-alives (here: up to *)
(* MaxKeepAlive of them).                                                  *)
(***************************************************************************)
C18_DisconnectEndsStream ==
    /\ \A s \in Streams : (pc[s] # "idle" /\ ~connected[s]) ~> (pc[s] = "done")
    /\ [][\A s \in Streams :
             pc[s] = "done" => (pc'[s] = "done" /\ events'[s] = events[s])]_vars
    /\ [][\A s \in Streams :
             (pc[s] # "done" /\ pc'[s] = "done") =>
                 (~connected[s] \/ events'[s] = Append(events[s], ErrorEvent))]_vars
    /\ \A s \in Streams :
            (pc[s] = "start") ~> (pc[s] = "done" \/ KeepAlives(s) >= MaxKeepAlive)

\* the client left right after the connection event and the first check ended
\* the stream: no keep-alive, no error event
C18_Witness ==
    \E s \in Streams :
        /\ ~connected[s]
        /\ pc[s] = "done"
        /\ events[s] = <<ConnectionEvent>>

(***************************************************************************)
(* C19: after any sequence of add_tool_handler calls the registry holds    *)
(* exactly one entry per name that was registered, no name twice; the      *)
(* entry of a name is the handler of the last call made with that name;    *)
(* and a call with a name that is already there raises nothing: it can     *)
(* always be made.                                                         *)
(***************************************************************************)
C19_LastWriteWins ==
    /\ \A i, j \in 1..Len(tool_handlers) :
            tool_handlers[i].name = tool_handlers[j].name => i = j
    /\ RegisteredNames = {registered[i].name : i \in 1..Len(registered)}
    /\ \A n \in RegisteredNames :
            \E i \in 1..Len(tool_handlers) :
                /\ tool_handlers[i].name = n
                /\ tool_handlers[i].h = LastCall(registered, n).h
    /\ (phase = "startup" /\ Len(registered) < MaxRegister) =>
            \A n \in RegisteredNames, h \in Handlers : ENABLED Register(n, h)

\* t1 was registered with h1, then again with h2: one entry, and it holds h2
C19_Witness ==
    /\ phase = "startup"
    /\ registered = <<[name |-> "t1", h |-> "h1"], [name |-> "t1", h |-> "h2"]>>
    /\ tool_handlers = <<[name |-> "t1", h |-> "h2"]>>

=============================================================================
